---- MODULE Spec2Model ----
(***************************************************************************)
(* A model of deutscheflash.py: the WordList table (new, format_gender,    *)
(* add, get_words, update_weight) and the quiz loop _quiz that drives it.  *)
(*                                                                         *)
(* Strings that the program converts (lower, capitalize, gender[0]) are    *)
(* sequences of one-character strings, so that the conversions are         *)
(* computed and not assumed.  A float weight a / b is kept as the reduced  *)
(* fraction <<a', b'>>: two quotients of small integers are the same float *)
(* exactly when they are the same fraction.                                *)
(***************************************************************************)
EXTENDS Integers, Sequences, FiniteSets, TLC

VARIABLES
    structure,    \* WordList.structure
    words,        \* WordList.words: word -> [Gender, Correct, Wrong, Weight]
    ret,          \* the last call and what it returned or raised
    streak,       \* per word, the calls update_weight(word, True) since add
    pc,           \* where _quiz stands: "idle", "input" or "crashed"
    sample,       \* the rows get_words has still to yield to _quiz
    quiz_length,  \* _quiz's argument
    answered,     \* _quiz's local
    correct,      \* _quiz's local
    totals,       \* _quiz_endless's locals <<correct, answered>>, <<>> outside it
    disk          \* the files of the word list: [csv, json]

quizVars == <<pc, sample, quiz_length, answered, correct>>
vars == <<structure, words, ret, streak, pc, sample, quiz_length, answered, correct,
          totals, disk>>

----------------------------------------------------------------------------
(* Bounds of the model.                                                    *)

\* new(score_inertia = i) is called with i in 1 .. MaxInertia.
MaxInertia == 2
\* get_words / _quiz are asked for 0 .. MaxSample words.
MaxSample == 3

----------------------------------------------------------------------------
(* Characters and strings.                                                 *)

Lowers == <<"a","b","c","d","e","f","g","h","i","j","k","l","m",
            "n","o","p","q","r","s","t","u","v","w","x","y","z">>
Uppers == <<"A","B","C","D","E","F","G","H","I","J","K","L","M",
            "N","O","P","Q","R","S","T","U","V","W","X","Y","Z">>

LowerChar(c) ==
    IF \E i \in DOMAIN Uppers : Uppers[i] = c
    THEN Lowers[CHOOSE i \in DOMAIN Uppers : Uppers[i] = c]
    ELSE c

UpperChar(c) ==
    IF \E i \in DOMAIN Lowers : Lowers[i] = c
    THEN Uppers[CHOOSE i \in DOMAIN Lowers : Lowers[i] = c]
    ELSE c

\* str.lower()
lower(s) == [i \in 1..Len(s) |-> LowerChar(s[i])]

\* capitalize without the change of case: the word is kept as typed
capitalize_as_typed(s) == s

\* str.capitalize(): first character upper case, the others lower case
capitalize(s) == [i \in 1..Len(s) |-> IF i = 1 THEN UpperChar(s[i]) ELSE LowerChar(s[i])]

masculine == <<"m","a","s","c","u","l","i","n","e">>
neuter == <<"n","e","u","t","e","r">>
plural == <<"p","l","u","r","a","l">>
femenine == <<"f","e","m","e","n","i","n","e">>
der == <<"d","e","r">>
das == <<"d","a","s">>
die == <<"d","i","e">>

\* GERMAN_GENDERS with one entry for the article die
GERMAN_GENDERS_three ==
    << <<masculine, der>>, <<neuter, das>>, <<femenine, die>> >>

\* The dict GERMAN_GENDERS, as its items in insertion order.
GERMAN_GENDERS ==
    << <<masculine, der>>, <<neuter, das>>, <<plural, die>>, <<femenine, die>> >>

\* The keys of a genders dict.
GenderKeys(genders) == {genders[i][1] : i \in DOMAIN genders}

\* _get_aliases: for each (gender, article) in order, aliases[gender[0]] and
\* aliases[article] are set to gender; a later item overwrites an earlier one.
RECURSIVE AliasesUpTo(_, _)
AliasesUpTo(genders, k) ==
    IF k = 0 THEN <<>>
    ELSE LET gender == genders[k][1]
             article == genders[k][2]
         IN (article :> gender) @@ (<<gender[1]>> :> gender) @@ AliasesUpTo(genders, k - 1)

_get_aliases(genders) == AliasesUpTo(genders, Len(genders))

\* WordList.new: the structure dict.
new(genders, score_inertia) ==
    [genders |-> genders,
     aliases |-> _get_aliases(genders),
     default_guesses |-> score_inertia,
     index |-> <<"W","o","r","d">>,
     column_count |-> 3]

----------------------------------------------------------------------------
(* Weights.                                                                *)

RECURSIVE Gcd(_, _)
Gcd(a, b) == IF b = 0 THEN a ELSE Gcd(b, a % b)

Abs(x) == IF x < 0 THEN -x ELSE x

\* The float a / b, as a reduced fraction with a positive denominator;
\* <<a, 0>> stands for the failed division by zero.
Frac(a, b) ==
    IF b = 0 THEN <<a, 0>>
    ELSE LET g == Gcd(Abs(a), Abs(b))
             s == IF b < 0 THEN -1 ELSE 1
         IN <<s * (a \div g), s * (b \div g)>>

Min(a, b) == IF a < b THEN a ELSE b

----------------------------------------------------------------------------
(* The table.                                                              *)

n_genders == Len(structure.genders)

NoError == "none"
UnknownGender == "ValueError: Unknown gender"
InvalidGender == "ValueError: not a valid gender for the current wordlist"
DuplicateWord == "ValueError: is already included"
UnknownDistribution == "ValueError: Unknown value for distribution"
SampleError == "ValueError: raised by DataFrame.sample"
AttributeError == "AttributeError: 'Series' object has no attribute 'wrong'"

\* format_gender that hands an unknown string back instead of raising
format_gender_lenient(gender_string) ==
    LET s == lower(gender_string) IN
    IF s \in DOMAIN structure.aliases
    THEN [err |-> NoError, val |-> structure.aliases[s]]
    ELSE [err |-> NoError, val |-> s]

\* format_gender: [err, val]
format_gender(gender_string) ==
    LET s == lower(gender_string) IN
    IF s \in GenderKeys(structure.genders) THEN [err |-> NoError, val |-> s]
    ELSE IF s \in DOMAIN structure.aliases
         THEN [err |-> NoError, val |-> structure.aliases[s]]
         ELSE [err |-> UnknownGender, val |-> s]

\* add with every guess of the initial history counted as wrong
AddRow_all_wrong(gender) ==
    [Gender |-> gender,
     Correct |-> structure.default_guesses,
     Wrong |-> structure.default_guesses * n_genders,
     Weight |-> Frac(n_genders - 1, n_genders)]

\* The row that add stores for a new word.
AddRow(gender) ==
    [Gender |-> gender,
     Correct |-> structure.default_guesses,
     Wrong |-> structure.default_guesses * (n_genders - 1),
     Weight |-> Frac(n_genders - 1, n_genders)]

\* add: the error raised (or none) for the inputs
\* The ValueError of add(gender, word) on the table given, NoError if none.
AddErrorIn(table, gender, word) ==
    LET g == format_gender(gender) IN
    IF g.err # NoError THEN g.err
    ELSE IF g.val \notin GenderKeys(structure.genders) THEN InvalidGender
    ELSE IF capitalize(word) \in DOMAIN table THEN DuplicateWord
    ELSE NoError

AddError(gender, word) == AddErrorIn(words, gender, word)

\* wrongs_to_throw without the min: the last wrong answer is not kept
wrongs_to_throw_unbounded(row) == n_genders - 1

\* min(row.Wrong - 1, n_genders - 1)
wrongs_to_throw(row) == Min(row.Wrong - 1, n_genders - 1)

\* The decay with row.Correct -= n_genders: the wrongs thrown are not deducted
ThrowAway_too_many(row) ==
    [row EXCEPT !.Wrong = row.Wrong - wrongs_to_throw(row),
                !.Correct = row.Correct - n_genders]

\* The decay taken from row.Correct alone
ThrowAway_correct_only(row) ==
    [row EXCEPT !.Correct = row.Correct - n_genders]

\* The decay with the two counters swapped
ThrowAway_swapped(row) ==
    [row EXCEPT !.Correct = row.Correct - wrongs_to_throw(row),
                !.Wrong = row.Wrong - (n_genders - wrongs_to_throw(row))]

\* The branch taken at a decay checkpoint when row.Correct is truthy.
ThrowAway(row) ==
    [row EXCEPT !.Wrong = row.Wrong - wrongs_to_throw(row),
                !.Correct = row.Correct - (n_genders - wrongs_to_throw(row))]

\* row.Correct += 1 or row.Wrong += 1
Counted(row, guess) ==
    IF guess THEN [row EXCEPT !.Correct = row.Correct + 1]
    ELSE [row EXCEPT !.Wrong = row.Wrong + 1]

\* not total % n_genders
AtCheckpoint(row) == (row.Correct + row.Wrong) % n_genders = 0

\* update_weight without the recomputation of the weight
Reweighted_stale(row) == row

\* row.Weight = row.Wrong / (row.Correct + row.Wrong)
Reweighted(row) == [row EXCEPT !.Weight = Frac(row.Wrong, row.Correct + row.Wrong)]

\* update_weight on a copy of the stored row: [err, row].  In the branch for
\* row.Correct == 0 the read of row.wrong (lower case) raises AttributeError
\* before anything is stored.
UpdatedRow(row, guess) ==
    LET r1 == Counted(row, guess) IN
    IF AtCheckpoint(r1)
    THEN IF r1.Correct # 0
         THEN [err |-> NoError, row |-> Reweighted(ThrowAway(r1))]
         ELSE [err |-> AttributeError, row |-> row]
    ELSE [err |-> NoError, row |-> Reweighted(r1)]

\* The assignment made to every row of the table
Stored_in_every_row(table, word, row) ==
    [k \in DOMAIN table \cup {word} |-> row]

\* self.words.loc[word] = row
Stored(table, word, row) == (word :> row) @@ table

-----------------------------------------------------------------------------
(* Sampling.                                                               *)

\* The draws with replacement
Draws_with_replacement(pool, n) == [1..n -> pool]

\* The sequences of n distinct elements of pool: the draws without
\* replacement that DataFrame.sample(n) can return.
RECURSIVE Draws(_, _)
Draws(pool, n) ==
    IF n = 0 THEN {<<>>}
    ELSE UNION {{<<x>> \o d : d \in Draws(pool \ {x}, n - 1)} : x \in pool}

\* The words DataFrame.sample can draw: every word (uniform), or the words
\* of positive probability (weights="Weight").
Pool(table, distribution) ==
    IF distribution = "uniform" THEN DOMAIN table
    ELSE {w \in DOMAIN table : table[w].Weight[1] > 0}

\* get_words: the error raised (or none)
GetWordsError(table, n, distribution) ==
    IF distribution \notin {"uniform", "weighted"} THEN UnknownDistribution
    ELSE IF n > Cardinality(Pool(table, distribution)) THEN SampleError
    ELSE NoError

\* get_words: what the generator can yield, as sequences of (word, gender)
GetWordsResults(table, n, distribution) ==
    {[i \in 1..n |-> <<d[i], table[d[i]].Gender>>] : d \in Draws(Pool(table, distribution), n)}

----------------------------------------------------------------------------
(* Inputs.                                                                 *)

hund == <<"h","u","n","d">>
Hund == <<"H","u","n","d">>
HUND == <<"H","U","N","D">>
katze == <<"k","a","t","z","e">>
kATZE == <<"k","A","T","Z","E">>

\* (gender, word) pairs handed to add, as the rows of an import file.
AddInputs ==
    { <<der, Hund>>, <<<<"D","i","e">>, hund>>, <<<<"x">>, HUND>>,
      <<<<"P">>, katze>>, <<<<"f","e","m","i","n","i","n","e">>, kATZE>> }

Distributions == {"uniform", "weighted", "random"}

quit == <<"q","u","i","t">>
exit == <<"e","x","i","t">>

\* What the user types at the prompt of _quiz.
GuessInputs ==
    { quit, <<"E","x","i","t">>, der, <<"D","i","e">>, <<"p">>, <<"x">> }

\* score_inertia: int = 2
DefaultInertia == 2

----------------------------------------------------------------------------
(* The files of a word list: save writes <path>.csv and <path>.json, load  *)
(* reads them.                                                             *)

Digit == <<"0","1","2","3","4","5","6","7","8","9">>

\* str(n) for a natural number: its decimal digits
RECURSIVE str_int(_)
str_int(n) ==
    IF n < 10 THEN <<Digit[n + 1]>>
    ELSE str_int(n \div 10) \o <<Digit[(n % 10) + 1]>>

IsDigits(s) ==
    /\ Len(s) > 0
    /\ \A i \in 1..Len(s) : \E d \in DOMAIN Digit : Digit[d] = s[i]

\* int(s) for a string of decimal digits
RECURSIVE int_str(_)
int_str(s) ==
    IF Len(s) = 0 THEN 0
    ELSE 10 * int_str(SubSeq(s, 1, Len(s) - 1))
         + (CHOOSE d \in DOMAIN Digit : Digit[d] = s[Len(s)]) - 1

\* A value read as an integer, as opposed to the string of its digits.
PyInt(n) == <<"int">> \o str_int(n)

Absent == [exists |-> FALSE, text |-> {}]
File(text) == [exists |-> TRUE, text |-> text]

\* DataFrame.to_csv: one line per record, the index first; integers as
\* their digits.  The Weight cell is the repr of the float, which the
\* integers here cannot spell out: it stands for itself, and is read back as
\* the same float.
to_csv(table) ==
    { [Word |-> w,
       Gender |-> table[w].Gender,
       Correct |-> str_int(table[w].Correct),
       Wrong |-> str_int(table[w].Wrong),
       Weight |-> table[w].Weight] : w \in DOMAIN table }

\* pd.read_csv followed by set_index("Word"): the type of a column is
\* inferred from its cells, so a Word column in which every cell is made of
\* digits is read as integers.
read_csv(text) ==
    LET numeric == text # {} /\ \A r \in text : IsDigits(r.Word)
        key(r) == IF numeric THEN PyInt(int_str(r.Word)) ELSE r.Word
    IN [k \in { key(r) : r \in text } |->
          LET r == CHOOSE r \in text : key(r) = k
          IN [Gender |-> r.Gender,
              Correct |-> int_str(r.Correct),
              Wrong |-> int_str(r.Wrong),
              Weight |-> r.Weight]]

\* json.dumps(self.structure)
json_dumps(s) ==
    [genders |-> s.genders,
     aliases |-> s.aliases,
     default_guesses |-> str_int(s.default_guesses),
     index |-> s.index,
     column_count |-> str_int(s.column_count)]

\* json.loads
json_loads(text) ==
    [genders |-> text.genders,
     aliases |-> text.aliases,
     default_guesses |-> int_str(text.default_guesses),
     index |-> text.index,
     column_count |-> int_str(text.column_count)]

PermissionError == "PermissionError"

\* What a call of save can do: write both files, fail to open the .csv
\* (nothing written), or fail to open the .json (the .csv is written).
SaveOutcomes == {"saved", "csv", "json"}

\* x in s for strings: x occurs in s as a substring
In(x, s) ==
    \E i \in 0..(Len(s) - Len(x)) : SubSeq(s, i + 1, i + Len(x)) = x

-----------------------------------------------------------------------------
(* The operations of WordList.                                             *)

InitWith(inertias) ==
    /\ \E i \in inertias : structure = new(GERMAN_GENDERS, i)
    /\ words = <<>>
    /\ ret = [op |-> "new", err |-> NoError, arg |-> <<>>, val |-> <<>>]
    /\ streak = <<>>
    /\ pc = "idle"
    /\ sample = <<>>
    /\ quiz_length = 0
    /\ answered = 0
    /\ correct = 0
    /\ totals = <<>>
    /\ disk = [csv |-> Absent, json |-> Absent]

Init == InitWith(1..MaxInertia)

\* wordlist.add(gender, word)
Add(gender, word) ==
    /\ pc = "idle"
    /\ LET e == AddError(gender, word) IN
       /\ ret' = [op |-> "add", err |-> e, arg |-> word, val |-> <<>>]
       /\ words' = IF e = NoError
                   THEN Stored(words, capitalize(word), AddRow(format_gender(gender).val))
                   ELSE words
    /\ UNCHANGED <<structure, quizVars, totals, disk>>

\* wordlist.update_weight(word, guess), word in the index
UpdateWeight(word, guess) ==
    /\ pc = "idle"
    /\ word \in DOMAIN words
    /\ LET u == UpdatedRow(words[word], guess) IN
       /\ ret' = [op |-> "update_weight", err |-> u.err, arg |-> word, val |-> <<>>]
       /\ words' = IF u.err = NoError THEN Stored(words, word, u.row) ELSE words
    /\ UNCHANGED <<structure, quizVars, totals, disk>>

\* The history of the calls, kept beside them: streak[word] is the number of
\* calls update_weight(word, True) since add(word), counted up to
\* score_inertia * n_genders + 1, and -1 once a call had guess False.
AddTracked(gender, word) ==
    /\ Add(gender, word)
    /\ streak' = IF AddError(gender, word) = NoError
                 THEN (capitalize(word) :> 0) @@ streak
                 ELSE streak

UpdateWeightTracked(word, guess) ==
    /\ UpdateWeight(word, guess)
    /\ streak' = IF guess /\ streak[word] >= 0
                 THEN (word :> Min(streak[word] + 1,
                                   structure.default_guesses * n_genders + 1)) @@ streak
                 ELSE (word :> -1) @@ streak

\* list(wordlist.get_words(n, distribution))
GetWords(n, distribution) ==
    /\ pc = "idle"
    /\ LET e == GetWordsError(words, n, distribution) IN
       IF e # NoError
       THEN ret' = [op |-> "get_words", err |-> e, arg |-> <<n, distribution>>, val |-> <<>>]
       ELSE \E r \in GetWordsResults(words, n, distribution) :
              ret' = [op |-> "get_words", err |-> e, arg |-> <<n, distribution>>, val |-> r]
    /\ UNCHANGED <<structure, words, streak, quizVars, totals, disk>>

Next ==
    \/ \E a \in AddInputs : AddTracked(a[1], a[2])
    \/ \E w \in DOMAIN words, guess \in BOOLEAN : UpdateWeightTracked(w, guess)

Spec == Init /\ [][Next]_vars

NextSample ==
    \/ \E a \in AddInputs : Add(a[1], a[2]) /\ UNCHANGED streak
    \/ \E w \in DOMAIN words, guess \in BOOLEAN : UpdateWeight(w, guess) /\ UNCHANGED streak
    \/ \E n \in 1..MaxSample, d \in Distributions : GetWords(n, d)

SpecSample == InitWith({DefaultInertia}) /\ [][NextSample]_vars

-----------------------------------------------------------------------------
(* _load_words and _add_words.                                             *)

MaxRows == 2

\* The rows (Gender, Word) of an import file, both cells strings.
ImportFiles ==
    UNION { [1..n -> AddInputs] : n \in 0..MaxRows }

\* The table after add(gender, word) on the table given.
Added(table, gender, word) ==
    IF AddErrorIn(table, gender, word) = NoError
    THEN Stored(table, capitalize(word), AddRow(format_gender(gender).val))
    ELSE table

\* The loop of _load_words with the first ValueError ending it
RECURSIVE Imported_first_failure_ends(_, _)
Imported_first_failure_ends(table, rows) ==
    IF rows = <<>> \/ AddErrorIn(table, Head(rows)[1], Head(rows)[2]) # NoError
    THEN [table |-> table, words_added |-> 0, repetitions |-> 0]
    ELSE LET rest == Imported_first_failure_ends(
                         Added(table, Head(rows)[1], Head(rows)[2]), Tail(rows))
         IN [rest EXCEPT !.words_added = rest.words_added + 1]

\* The loop of _load_words: add for every row, a ValueError counted as a
\* repetition.
RECURSIVE Imported(_, _)
Imported(table, rows) ==
    IF rows = <<>>
    THEN [table |-> table, words_added |-> 0, repetitions |-> 0]
    ELSE LET e == AddErrorIn(table, Head(rows)[1], Head(rows)[2])
             rest == Imported(Added(table, Head(rows)[1], Head(rows)[2]), Tail(rows))
         IN IF e = NoError
            THEN [rest EXCEPT !.words_added = rest.words_added + 1]
            ELSE [rest EXCEPT !.repetitions = rest.repetitions + 1]

\* _load_words(wordlist, import_path), the file holding the rows given
LoadWords(rows) ==
    /\ pc = "idle"
    /\ LET r == Imported(words, rows) IN
       /\ words' = r.table
       /\ ret' = [op |-> "_load_words", err |-> NoError, arg |-> rows,
                  val |-> <<r.words_added, r.repetitions>>]
    /\ UNCHANGED <<structure, streak, quizVars, totals, disk>>

\* str.split(): the words of a line, separated by runs of blanks
RECURSIVE split(_)
split(s) ==
    IF s = <<>> THEN <<>>
    ELSE IF Head(s) = " " THEN split(Tail(s))
    ELSE LET n == IF \E i \in 1..Len(s) : s[i] = " "
                  THEN CHOOSE i \in 1..Len(s) :
                         s[i] = " " /\ \A j \in 1..(i - 1) : s[j] # " "
                  ELSE Len(s) + 1
         IN <<SubSeq(s, 1, n - 1)>> \o split(SubSeq(s, n, Len(s)))

NotTwoValues == "not two values to unpack"

\* What the user types in word addition mode.
AddLines ==
    { quit, exit, <<"Q","u","i","t">>, <<>>, Hund,
      der \o <<" ">> \o Hund,
      <<"x"," ">> \o hund,
      <<"D","i","e"," "," ">> \o katze,
      der \o <<" ">> \o Hund \o <<" ">> \o katze }

\* main calls _add_words(words): up to the first input()
AddWordsStart ==
    /\ pc = "idle"
    /\ pc' = "adding"
    /\ ret' = [op |-> "_add_words", err |-> NoError, arg |-> <<>>, val |-> <<>>]
    /\ UNCHANGED <<structure, words, streak, sample, quiz_length, answered,
                   correct, totals, disk>>

\* One pass of the loop of _add_words, from the line typed to the next
\* input() or to the break.
AddLine(input_str) ==
    /\ pc = "adding"
    /\ IF input_str \in {quit, exit}
       THEN /\ pc' = "idle"
            /\ words' = words
            /\ ret' = [op |-> "_add_words", err |-> NoError, arg |-> input_str,
                       val |-> <<>>]
       ELSE LET fields == split(input_str)
                e == IF Len(fields) # 2 THEN NotTwoValues
                     ELSE AddErrorIn(words, fields[1], fields[2])
            IN /\ pc' = "adding"
               /\ words' = IF e = NoError
                           THEN Added(words, fields[1], fields[2])
                           ELSE words
               /\ ret' = [op |-> "_add_words", err |-> e, arg |-> input_str,
                          val |-> <<>>]
    /\ UNCHANGED <<structure, streak, sample, quiz_length, answered, correct,
                   totals, disk>>

\* main with --load-words or --add-words
NextImport ==
    \/ \E rows \in ImportFiles : LoadWords(rows)
    \/ AddWordsStart
    \/ \E input_str \in AddLines : AddLine(input_str)

SpecImport == InitWith({DefaultInertia}) /\ [][NextImport]_vars

-----------------------------------------------------------------------------
(* _save_and_exit, and the next start of the program.                      *)

\* Answers to "Try again? Y/N: "
RetryInputs ==
    { <<>>, <<"Y">>, <<"y">>, <<"N">>, <<"n">>, <<"N","n">>, <<"y","e","s">>,
      <<"n","o">>, <<"x">> }

\* One pass of the loop of _save_and_exit, from wordlist.save(path) to the
\* end of the program or to the next input().
SaveAttempt(answer, outcome) ==
    /\ disk' = IF outcome = "saved"
               THEN [csv |-> File(to_csv(words)), json |-> File(json_dumps(structure))]
               ELSE IF outcome = "json"
               THEN [disk EXCEPT !.csv = File(to_csv(words))]
               ELSE disk
    /\ pc' = IF outcome = "saved" THEN "exited" ELSE "retry"
    /\ ret' = [op |-> "_save_and_exit",
               err |-> IF outcome = "saved" THEN NoError ELSE PermissionError,
               arg |-> answer,
               val |-> IF outcome = "saved" THEN "saved" ELSE "asked"]

\* main calls _save_and_exit(words, path)
SaveAndExit(outcome) ==
    /\ pc = "idle"
    /\ SaveAttempt(<<>>, outcome)
    /\ UNCHANGED <<structure, words, streak, sample, quiz_length, answered,
                   correct, totals>>

\* The answer to "Try again? Y/N: " and what follows it.
SaveRetry(retry, outcome) ==
    /\ pc = "retry"
    /\ IF In(retry, <<"Y","y">>)
       THEN SaveAttempt(retry, outcome)
       ELSE IF In(retry, <<"N","n">>)
       THEN /\ pc' = "exited"
            /\ ret' = [op |-> "_save_and_exit", err |-> NoError, arg |-> retry,
                       val |-> "abandoned"]
            /\ disk' = disk
       ELSE SaveAttempt(retry, outcome)
    /\ UNCHANGED <<structure, words, streak, sample, quiz_length, answered,
                   correct, totals>>

\* WordList.load(path), called by WordList(path) when the program is started
\* again.
Load ==
    /\ pc = "exited"
    /\ IF disk.csv.exists /\ disk.json.exists
       THEN /\ words' = read_csv(disk.csv.text)
            /\ structure' = json_loads(disk.json.text)
       ELSE /\ words' = <<>>
            /\ structure' = new(GERMAN_GENDERS, DefaultInertia)
    /\ pc' = "restarted"
    /\ ret' = [op |-> "load", err |-> NoError, arg |-> <<>>, val |-> <<>>]
    /\ UNCHANGED <<streak, sample, quiz_length, answered, correct, totals, disk>>

Seven == <<"7">>

SaveAddInputs ==
    { <<der, Seven>>, <<<<"D","i","e">>, hund>>, <<<<"x">>, HUND>> }

\* One run of the program on a new word list, its end in _save_and_exit, and
\* the start of the next run.
NextSave ==
    \/ \E a \in SaveAddInputs : Add(a[1], a[2]) /\ UNCHANGED streak
    \/ \E w \in DOMAIN words, guess \in BOOLEAN :
          UpdateWeight(w, guess) /\ UNCHANGED streak
    \/ \E outcome \in SaveOutcomes : SaveAndExit(outcome)
    \/ \E retry \in RetryInputs, outcome \in SaveOutcomes : SaveRetry(retry, outcome)
    \/ Load

SpecSave == InitWith({DefaultInertia}) /\ [][NextSave]_vars

----------------------------------------------------------------------------
(* _quiz.                                                                  *)

\* answered <= quiz_length
Completed_at_most(a, length) == a <= length

\* answered == quiz_length, the third component of what _quiz returns
Completed(a, length) == a = length

\* for _quiz_endless: batches of 20
BatchSize == 20

\* An exception leaves _quiz (and _quiz_endless) and ends the process.
QuizRaises(e, length) ==
    /\ pc' = "crashed"
    /\ ret' = [op |-> "_quiz", err |-> e, arg |-> length, val |-> <<>>]
    /\ sample' = <<>>
    /\ quiz_length' = 0
    /\ answered' = 0
    /\ correct' = 0
    /\ totals' = <<>>

\* _quiz(wordlist, length) up to its first input(), on the table given:
\* get_words(length) draws the whole sample (weighted) when the loop asks
\* for the first row.  op is the function main called.
QuizBegins(table, length, op) ==
    LET e == GetWordsError(table, length, "weighted") IN
    IF e # NoError
    THEN QuizRaises(e, length)
    ELSE /\ \E r \in GetWordsResults(table, length, "weighted") : sample' = r
         /\ pc' = "input"
         /\ quiz_length' = length
         /\ answered' = 0
         /\ correct' = 0
         /\ ret' = [op |-> op, err |-> NoError, arg |-> length, val |-> <<>>]

\* _quiz returns (c, a, completed) to _quiz_endless, which adds the counts to
\* its totals and, if the batch was completed, calls _quiz again on the
\* table as it is now; otherwise it returns the totals.
EndlessGoesOn(c, a) ==
    LET sums == <<totals[1] + c, totals[2] + a>> IN
    IF Completed(a, quiz_length)
    THEN /\ QuizBegins(words', BatchSize, "_quiz_endless")
         /\ pc' = "input" => totals' = sums
    ELSE /\ pc' = "idle"
         /\ ret' = [op |-> "_quiz_endless", err |-> NoError, arg |-> BatchSize,
                    val |-> sums]
         /\ sample' = <<>>
         /\ quiz_length' = 0
         /\ answered' = 0
         /\ correct' = 0
         /\ totals' = <<>>

\* return correct, answered, answered == quiz_length
QuizReturns(c, a) ==
    IF totals # <<>>
    THEN EndlessGoesOn(c, a)
    ELSE /\ pc' = "idle"
         /\ ret' = [op |-> "_quiz", err |-> NoError, arg |-> quiz_length,
                    val |-> <<c, a, Completed(a, quiz_length)>>]
         /\ sample' = <<>>
         /\ quiz_length' = 0
         /\ answered' = 0
         /\ correct' = 0
         /\ totals' = <<>>

\* The loop goes on to the next row of the sample, or ends with it.
QuizGoesOn(c, a) ==
    IF Tail(sample) = <<>>
    THEN QuizReturns(c, a)
    ELSE /\ pc' = "input"
         /\ sample' = Tail(sample)
         /\ answered' = a
         /\ correct' = c
         /\ UNCHANGED <<ret, quiz_length, totals>>

\* main calls _quiz(words, length)
QuizStart(length) ==
    /\ pc = "idle"
    /\ QuizBegins(words, length, "_quiz")
    /\ pc' = "input" => totals' = <<>>
    /\ UNCHANGED <<structure, words, streak, disk>>

\* main calls _quiz_endless(words): correct, answered = 0, 0 and the first
\* batch
QuizEndlessStart ==
    /\ pc = "idle"
    /\ QuizBegins(words, BatchSize, "_quiz_endless")
    /\ pc' = "input" => totals' = <<0, 0>>
    /\ UNCHANGED <<structure, words, streak, disk>>

\* One pass of the loop body, from the answer to input() to the next input()
\* or to the end of _quiz.
QuizGuess(typed) ==
    /\ pc = "input"
    /\ LET word == Head(sample)[1]
           gender == Head(sample)[2]
           guess == lower(typed)
       IN IF guess \in {quit, exit}
          THEN UNCHANGED words /\ QuizReturns(correct, answered)
          ELSE LET g == format_gender(guess) IN
               IF g.err # NoError
               THEN UNCHANGED words /\ QuizGoesOn(correct, answered + 1)
               ELSE LET accurate == (gender = g.val)
                        u == UpdatedRow(words[word], accurate)
                    IN IF u.err # NoError
                       THEN UNCHANGED words /\ QuizRaises(u.err, quiz_length)
                       ELSE /\ words' = Stored(words, word, u.row)
                            /\ QuizGoesOn(IF accurate THEN correct + 1 ELSE correct,
                                          answered + 1)
    /\ UNCHANGED <<structure, streak, disk>>

NextQuiz ==
    \/ \E a \in AddInputs : Add(a[1], a[2]) /\ UNCHANGED streak
    \/ \E length \in 1..MaxSample : QuizStart(length)
    \/ \E typed \in GuessInputs : QuizGuess(typed)

SpecQuiz == InitWith({DefaultInertia}) /\ [][NextQuiz]_vars

\* main with --quiz 0 (endless) or --quiz n, after words were added
NextEndless ==
    \/ \E a \in AddInputs : Add(a[1], a[2]) /\ UNCHANGED streak
    \/ \E length \in 1..MaxSample : QuizStart(length)
    \/ QuizEndlessStart
    \/ \E typed \in GuessInputs : QuizGuess(typed)

SpecEndless == InitWith({DefaultInertia}) /\ [][NextEndless]_vars

\* The calls of add and update_weight, and quizzes of a fixed length
NextSession ==
    \/ \E a \in AddInputs : Add(a[1], a[2]) /\ UNCHANGED streak
    \/ \E w \in DOMAIN words, guess \in BOOLEAN :
          UpdateWeight(w, guess) /\ UNCHANGED streak
    \/ \E length \in 1..MaxSample : QuizStart(length)
    \/ \E typed \in GuessInputs : QuizGuess(typed)

SpecSession == InitWith({DefaultInertia}) /\ [][NextSession]_vars

----------------------------------------------------------------------------
(* The claims.                                                             *)

Max0(x) == IF x < 0 THEN 0 ELSE x

\* x < y for two weights with positive denominators
FracLess(x, y) == x[1] * y[2] < y[1] * x[2]

\* C1 (as claimed): when update_weight(word, False) reaches a decay
\* checkpoint with correct = 0, it succeeds, subtracts n_genders from wrong
\* (not below zero), sets weight = wrong / (correct + wrong) and stores the row.
C1_AllWrongCheckpointDecays ==
    [][\A w \in DOMAIN words :
         ( /\ words[w].Correct = 0
           /\ (words[w].Wrong + 1) % n_genders = 0
           /\ UpdateWeightTracked(w, FALSE) )
         => LET wrong == Max0(words[w].Wrong + 1 - n_genders) IN
            /\ ret'.err = NoError
            /\ words'[w].Correct = 0
            /\ words'[w].Wrong = wrong
            /\ words'[w].Weight = Frac(wrong, wrong)]_vars

\* C2: after any sequence of add and update_weight, no record has wrong < 0.
C2_WrongNeverNegative == \A w \in DOMAIN words : words[w].Wrong >= 0

\* A record that update_weight has trimmed down to its last wrong answer.
C2_Witness ==
    /\ ret.op = "update_weight"
    /\ ret.err = NoError
    /\ words[ret.arg].Wrong = 1
    /\ words[ret.arg].Correct > structure.default_guesses

\* C3: every record has correct + wrong > 0.
C3_TotalPositive == \A w \in DOMAIN words : words[w].Correct + words[w].Wrong > 0

\* update_weight has just decayed a record back to its smallest total.
C3_Witness ==
    /\ ret.op = "update_weight"
    /\ ret.err = NoError
    /\ words[ret.arg].Correct + words[ret.arg].Wrong = structure.default_guesses * n_genders
    /\ words[ret.arg].Correct = 0

\* C4: every stored weight is wrong / (correct + wrong) of the record's own
\* counters, and lies in [0, 1].
C4_WeightIsDerived ==
    \A w \in DOMAIN words :
        LET r == words[w] IN
        /\ r.Weight[2] > 0
        /\ r.Weight[1] * (r.Correct + r.Wrong) = r.Wrong * r.Weight[2]
        /\ 0 <= r.Weight[1]
        /\ r.Weight[1] <= r.Weight[2]

\* update_weight has stored a weight other than the one add gave.
C4_Witness ==
    /\ ret.op = "update_weight"
    /\ ret.err = NoError
    /\ words[ret.arg].Weight = <<1, 2>>

\* C5: a successful add(gender_input, word) inserts exactly one record, keyed
\* by the capitalized word, with gender = format_gender(gender_input),
\* correct = score_inertia, wrong = score_inertia * (gender_count - 1) and
\* weight = (gender_count - 1) / gender_count, and changes no other record.
C5_AddInsertsFreshRecord ==
    [][\A a \in AddInputs :
         (ret'.op = "add" /\ ret'.err = NoError /\ AddTracked(a[1], a[2]))
         => LET key == capitalize(a[2])
                inertia == structure.default_guesses
                count == Len(structure.genders)
            IN /\ key[1] = UpperChar(a[2][1])
               /\ \A i \in 2..Len(key) : key[i] = LowerChar(a[2][i])
               /\ key \notin DOMAIN words
               /\ DOMAIN words' = DOMAIN words \cup {key}
               /\ \A k \in DOMAIN words : words'[k] = words[k]
               /\ words'[key].Gender = format_gender(a[1]).val
               /\ words'[key].Gender \in GenderKeys(structure.genders)
               /\ words'[key].Correct = inertia
               /\ words'[key].Wrong = inertia * (count - 1)
               /\ words'[key].Weight[1] * count = (count - 1) * words'[key].Weight[2]
               /\ words'[key].Weight[2] > 0]_vars

\* add has just stored a second word.
C5_Witness ==
    /\ ret.op = "add"
    /\ ret.err = NoError
    /\ Cardinality(DOMAIN words) = 2
    /\ words[capitalize(ret.arg)].Weight = <<3, 4>>

\* C6: from a freshly added word, each of the first
\* score_inertia * gender_count consecutive calls update_weight(word, True)
\* succeeds and leaves the word's weight strictly lower than before the call.
C6_CorrectStreakLowersWeight ==
    [][\A w \in DOMAIN words :
         ( /\ streak[w] >= 0
           /\ streak[w] < structure.default_guesses * Len(structure.genders)
           /\ ret'.op = "update_weight"
           /\ UpdateWeightTracked(w, TRUE) )
         => /\ ret'.err = NoError
            /\ FracLess(words'[w].Weight, words[w].Weight)]_vars

\* The last call of the streak has been made, through a decay checkpoint.
C6_Witness ==
    /\ ret.op = "update_weight"
    /\ ret.err = NoError
    /\ streak[ret.arg] = structure.default_guesses * Len(structure.genders)
    /\ words[ret.arg].Wrong = 1

\* The table holds the word in some casing.
KnownWord(word) == \E k \in DOMAIN words : lower(k) = lower(word)

\* No two keys of the table differ only in casing.
UniqueKeys(table) ==
    \A k1, k2 \in DOMAIN table : lower(k1) = lower(k2) => k1 = k2

\* C7 (as claimed): add of a word the table already holds, in whatever
\* casing, fails with the duplicate-word error and leaves the table unchanged.
C7_DuplicateAlwaysReported ==
    [][\A a \in AddInputs :
         (ret'.op = "add" /\ ret'.arg = a[2] /\ KnownWord(a[2]) /\ AddTracked(a[1], a[2]))
         => (ret'.err = DuplicateWord /\ words' = words)]_vars

\* C7 (amended): add of a word the table already holds, in whatever casing,
\* fails and leaves the table unchanged; the error is the duplicate-word
\* error when format_gender resolves the gender input, and the
\* unknown-gender error, raised first, when it does not.  Keys stay unique.
C7_DuplicateFailsUnchanged ==
    [][/\ \A a \in AddInputs :
            (ret'.op = "add" /\ ret'.arg = a[2] /\ KnownWord(a[2]) /\ AddTracked(a[1], a[2]))
            => /\ words' = words
               /\ ret'.err = IF format_gender(a[1]).err = NoError
                             THEN DuplicateWord
                             ELSE UnknownGender
       /\ DOMAIN words' # DOMAIN words => UniqueKeys(words')]_vars

\* "hund" has been refused as a duplicate of the stored "Hund".
C7_Witness ==
    /\ ret.op = "add"
    /\ ret.err = DuplicateWord
    /\ ret.arg = hund
    /\ Hund \in DOMAIN words
    /\ hund \notin DOMAIN words

\* C8 (as claimed): for every configured gender g, format_gender of g, of
\* its article and of its first letter is g.
C8_AliasesResolveToTheirGender ==
    \A i \in DOMAIN structure.genders :
        LET g == structure.genders[i][1]
            article == structure.genders[i][2]
        IN /\ format_gender(g) = [err |-> NoError, val |-> g]
           /\ format_gender(article) = [err |-> NoError, val |-> g]
           /\ format_gender(<<g[1]>>) = [err |-> NoError, val |-> g]

\* The words of a sample
SampledWords(val) == {val[i][1] : i \in DOMAIN val}

IsQuit(typed) == lower(typed) \in {quit, exit}

\* C10: in _quiz with length >= 1, a "quit" or "exit" given as the k-th
\* guess ends the session at once with answered = k - 1 and completed false,
\* the tally and every record unchanged ((0, 0, false) when k = 1); and
\* whenever _quiz returns, completed is true exactly when no quit occurred,
\* exactly when answered = length.
C10_QuitEndsUncounted ==
    [][\A typed \in GuessInputs :
         (pc = "input" /\ QuizGuess(typed))
         => LET k == quiz_length - Len(sample) + 1 IN
            /\ IsQuit(typed)
               => /\ pc' = "idle"
                  /\ ret'.val = <<correct, k - 1, FALSE>>
                  /\ k = 1 => ret'.val = <<0, 0, FALSE>>
                  /\ words' = words
            /\ (pc' = "idle" /\ ~IsQuit(typed))
               => /\ ret'.val[3] = TRUE
                  /\ ret'.val[2] = quiz_length
            /\ pc' = "idle"
               => (ret'.val[3] <=> ret'.val[2] = ret'.arg)]_vars

\* _quiz has returned after a quit given as the second guess of two.
C10_Witness ==
    /\ pc = "idle"
    /\ ret.op = "_quiz"
    /\ ret.arg = 2
    /\ ret.val = <<1, 1, FALSE>>

\* The typed answer is neither a quit word, nor a gender, nor an alias.
Unresolvable(typed) ==
    /\ lower(typed) \notin {quit, exit}
    /\ lower(typed) \notin GenderKeys(structure.genders)
    /\ lower(typed) \notin DOMAIN structure.aliases

\* C11: in _quiz a guess that format_gender cannot resolve adds one to
\* answered and changes nothing else: the tally of correct answers and every
\* record of the table stay as they were; the session goes on with the next
\* word of the sample (and returns when there is none).
C11_UnresolvableGuessOnlyCounted ==
    [][\A typed \in GuessInputs :
         (pc = "input" /\ Unresolvable(typed) /\ QuizGuess(typed))
         => /\ words' = words
            /\ structure' = structure
            /\ IF Len(sample) > 1
               THEN /\ pc' = "input"
                    /\ sample' = Tail(sample)
                    /\ answered' = answered + 1
                    /\ correct' = correct
               ELSE /\ pc' = "idle"
                    /\ ret'.err = NoError
                    /\ ret'.val[1] = correct
                    /\ ret'.val[2] = answered + 1]_vars

\* One guess has been counted, and every record is still as add stored it:
\* the guess was not scored.
C11_Witness ==
    /\ pc = "input"
    /\ quiz_length = 2
    /\ answered = 1
    /\ correct = 0
    /\ \A w \in DOMAIN words : words[w] = AddRow(words[w].Gender)

\* C12: _quiz_endless on any non-empty table runs batches of BatchSize one
\* after another: the call starts a batch of BatchSize questions, and it ends
\* only by returning its totals after a batch that was not completed.
C12_EndlessRunsBatches ==
    [][/\ (DOMAIN words # {} /\ QuizEndlessStart)
          => /\ pc' = "input"
             /\ quiz_length' = BatchSize
             /\ Len(sample') = BatchSize
             /\ totals' = <<0, 0>>
       /\ (totals # <<>> /\ totals' = <<>>)
          => /\ ret'.op = "_quiz_endless"
             /\ ret'.err = NoError
             /\ ret'.val = <<totals[1] + correct, totals[2] + answered>>]_vars

\* C13: when save fails, the loop of _save_and_exit asks again; any answer
\* other than N or n leads to another save attempt, and the program ends
\* only after a save that succeeded or after the answer N or n.
C13_OnlyNAbandons ==
    [][/\ \A retry \in RetryInputs, outcome \in SaveOutcomes :
            (pc = "retry" /\ retry \notin {<<"N">>, <<"n">>}
             /\ SaveRetry(retry, outcome))
            => ret'.val # "abandoned"
       /\ (pc # "exited" /\ pc' = "exited")
          => \/ ret'.val = "saved"
             \/ ret'.arg \in {<<"N">>, <<"n">>}]_vars

\* C15: for every table reached by add and update_weight, save followed by
\* load yields the same set of words, with the same gender, correct, wrong
\* and weight for each word, and the same structure (genders, aliases, score
\* inertia, index column, column count).
C15_SaveLoadRoundTrip ==
    [][(pc = "exited" /\ ret.val = "saved" /\ Load)
       => /\ DOMAIN words' = DOMAIN words
          /\ \A w \in DOMAIN words : w \in DOMAIN words' => words'[w] = words[w]
          /\ structure' = structure]_vars

C17_CheckpointTrims ==
    [][\A w \in DOMAIN words, guess \in BOOLEAN :
         (ret'.op = "update_weight" /\ ret'.arg = w /\ UpdateWeightTracked(w, guess))
         => LET c1 == words[w].Correct + (IF guess THEN 1 ELSE 0)
                w1 == words[w].Wrong + (IF guess THEN 0 ELSE 1)
                trim == Min(w1 - 1, n_genders - 1)
            IN /\ ((c1 + w1) % n_genders = 0 /\ c1 > 0)
                  => /\ ret'.err = NoError
                     /\ words'[w].Wrong = w1 - trim
                     /\ words'[w].Correct = c1 - (n_genders - trim)
                     /\ words'[w].Correct + words'[w].Wrong = c1 + w1 - n_genders
                     /\ words'[w].Wrong >= 1
                     /\ words'[w].Correct >= 0
               /\ (c1 + w1) % n_genders # 0
                  => /\ ret'.err = NoError
                     /\ words'[w].Wrong = w1
                     /\ words'[w].Correct = c1]_vars

\* A record after a checkpoint that left it its last wrong answer, the
\* rest of the n_genders taken from correct.
C17_Witness ==
    /\ ret.op = "update_weight"
    /\ ret.err = NoError
    /\ words[ret.arg].Wrong = 1
    /\ words[ret.arg].Correct = structure.default_guesses * n_genders - 1

\* C18: after add and after every completed update_weight each record has
\* score_inertia * n_genders <= correct + wrong
\*   <= score_inertia * n_genders + n_genders - 1 and correct >= 0; a
\* completed update adds one to the total, except the n_genders-th since the
\* total was score_inertia * n_genders, which returns it there.
C18_TotalBounded ==
    [][/\ \A w \in DOMAIN words' :
            LET total == words'[w].Correct + words'[w].Wrong
                low == structure.default_guesses * n_genders
            IN /\ low <= total
               /\ total <= low + n_genders - 1
               /\ words'[w].Correct >= 0
       /\ \A w \in DOMAIN words, guess \in BOOLEAN :
            (ret'.op = "update_weight" /\ ret'.arg = w /\ ret'.err = NoError
             /\ UpdateWeightTracked(w, guess))
            => LET total == words[w].Correct + words[w].Wrong
                   low == structure.default_guesses * n_genders
               IN words'[w].Correct + words'[w].Wrong
                    = IF total = low + n_genders - 1 THEN low ELSE total + 1]_vars

\* A record one answer before its next checkpoint, after an earlier one.
C18_Witness ==
    /\ ret.op = "update_weight"
    /\ ret.err = NoError
    /\ words[ret.arg].Correct + words[ret.arg].Wrong
         = structure.default_guesses * n_genders + n_genders - 1
    /\ words[ret.arg].Wrong = 1

\* C19: every record has wrong >= 1 and so a weight > 0: every word can be
\* drawn by weighted sampling, and a weighted sample of n <= table size is
\* never short.
C19_NoWordForgotten ==
    /\ \A w \in DOMAIN words : words[w].Wrong >= 1 /\ words[w].Weight[1] > 0
    /\ Pool(words, "weighted") = DOMAIN words
    /\ (ret.op = "get_words" /\ ret.arg[2] = "weighted"
        /\ ret.arg[1] <= Cardinality(DOMAIN words))
       => /\ ret.err = NoError
          /\ Len(ret.val) = ret.arg[1]

\* A weighted sample of the whole table, every word of it answered
\* correctly until one wrong answer is left.
C19_Witness ==
    /\ ret.op = "get_words"
    /\ ret.err = NoError
    /\ ret.arg = <<2, "weighted">>
    /\ Cardinality(DOMAIN words) = 2
    /\ \A w \in DOMAIN words :
         words[w].Wrong = 1 /\ words[w].Correct > structure.default_guesses

\* update_weight(word, ...) or a _quiz step asking word left everything but
\* the counters and weight of word as it was.
OnlyScoresOf(word) ==
    /\ DOMAIN words' = DOMAIN words
    /\ structure' = structure
    /\ words'[word].Gender = words[word].Gender
    /\ \A k \in DOMAIN words : k # word => words'[k] = words[k]

\* C20: update_weight(word, guess) changes only correct, wrong and weight of
\* the record of word; a _quiz session adds, removes and re-genders no word
\* and changes only the record of a word asked, and only when the guess was
\* recognised.
C20_UpdateFrame ==
    [][/\ \A w \in DOMAIN words, guess \in BOOLEAN :
            (ret'.op = "update_weight" /\ ret'.arg = w /\ UpdateWeight(w, guess))
            => OnlyScoresOf(w)
       /\ \A typed \in GuessInputs :
            (pc = "input" /\ QuizGuess(typed))
            => /\ OnlyScoresOf(Head(sample)[1])
               /\ words' # words
                  => /\ lower(typed) \in GenderKeys(structure.genders)
                                         \cup DOMAIN structure.aliases
                     /\ lower(typed) \notin {quit, exit}]_vars

\* In a quiz on two words the first answer was scored and the other word
\* is as add left it.
C20_Witness ==
    /\ pc = "input"
    /\ answered = 1
    /\ Cardinality(DOMAIN words) = 2
    /\ \E w \in DOMAIN words : words[w] # AddRow(words[w].Gender)
    /\ \E w \in DOMAIN words : words[w] = AddRow(words[w].Gender)

====
